---- MODULE Spec2Model ----
(***************************************************************************)
(* Model of backend/src/index.js of the euro price-tag scanner:            *)
(*   - the OCR worker singleton and the promise-chained recognition queue  *)
(*     (getWorker, runOcr, the SIGINT handler), as a state machine whose   *)
(*     steps are the macrotask/microtask turns of the Node.js event loop;  *)
(*   - the pure number-token normaliser (normalizeNumberToken), as         *)
(*     operators over sequences of one-character strings.                  *)
(***************************************************************************)
EXTENDS Integers, Sequences, FiniteSets, TLC

(***************************************************************************)
(* Bounds of the model.                                                    *)
(***************************************************************************)
\* number of runOcr calls made during one process lifetime
MaxJobs == 2
\* number of SIGINT signals delivered before the process has exited
MaxSignals == 2
\* longest raw token handed to normalizeNumberToken
MaxTokLen == 5
\* longest text of arbitrary characters handed to extractAmounts
MaxTextLen == 4
\* most tokens of the pool in a text put together from tokens
MaxTextTokens == 3
\* most POST /api/ocr requests received
MaxRequests == 2

VARIABLES
    workerPromise,      \* let workerPromise: "null" | "pending" | "fulfilled" | "rejected"
    workerErr,          \* rejection reason of workerPromise
    workerHandle,       \* the worker workerPromise is fulfilled with (0: none)
    initPc,             \* position of the async initialiser inside getWorker
    createWorkerCalls,  \* number of createWorker("eng") invocations
    jobs,               \* one record per runOcr call, in call order
    waiters,            \* runOcr calls suspended at `await getWorker()`, in order
    queue,              \* let queue: 0 is Promise.resolve(), k is job k's then-promise
    handlers,           \* one record per running SIGINT handler
    terminateCalls,     \* number of worker.terminate() invocations
    exited,             \* process.exit(0) has run
    token,              \* argument of normalizeNumberToken
    norm,               \* normalizeNumberToken(token)
    renorm,             \* normalizeNumberToken(norm)
    npc,                \* position of the normaliser driver
    text,               \* argument of extractAmounts
    amounts,            \* extractAmounts(text)
    epc,                \* position of the extractor driver
    camount,            \* req.query.amount of a GET /api/convert request
    cfrom,              \* req.query.from of a GET /api/convert request
    cresp,              \* the response to the GET /api/convert request
    requests            \* one record per POST /api/ocr request, in arrival order

vars == <<workerPromise, workerErr, workerHandle, initPc, createWorkerCalls, jobs,
          waiters, queue, handlers, terminateCalls, exited, token, norm, renorm, npc,
          text, amounts, epc, camount, cfrom, cresp, requests>>

mgrVars == <<workerPromise, workerErr, workerHandle, initPc, createWorkerCalls, jobs,
             waiters, queue, handlers, terminateCalls, exited>>

normVars == <<token, norm, renorm, npc>>

extVars == <<text, amounts, epc>>

convVars == <<camount, cfrom, cresp>>

\* the variables of the pure functions and of the stateless endpoint
pureVars == <<normVars, extVars, convVars>>

\* the image buffers callers pass to runOcr (opaque values)
Buffers == {"imgA", "imgB"}

NoErr == <<"none", 0>>

JobIds == 1..Len(jobs)


(***************************************************************************)
(* The recognition engine manager: getWorker, runOcr, SIGINT.              *)
(***************************************************************************)

\* getWorker, `if (!workerPromise)`: a non-null promise, settled or not, is kept
NeedsInitUnlessReady(wp) == wp # "fulfilled"
NeedsInit(wp) == wp = "null"

\* `await getWorker()` in runOcr: resumes normally on fulfilment, throws on rejection
AwaitedPcSwallowed(wp) == "queued"
AwaitedPc(wp) == IF wp = "fulfilled" THEN "queued" ELSE "rejected"

\* `queue = queue.then(...)`: the new tail of the chain is the promise just derived
ChainTailKept(q, k) == q
ChainTail(q, k) == k

\* state of promise p of the chain: 0 is the initial Promise.resolve()
PromiseState(p) ==
    IF p = 0 THEN "fulfilled"
    ELSE IF jobs[p].pc \in {"fulfilled", "rejected"} THEN jobs[p].pc
    ELSE "pending"

\* reason promise p of the chain is rejected with
PromiseErr(p) == IF p = 0 THEN NoErr ELSE jobs[p].err

\* queue.then(onFulfilled): the callback of job k runs once the promise it was
\* chained on is fulfilled
CanStartUnqueued(k) == jobs[k].pc = "queued"
CanStart(k) == jobs[k].pc = "queued" /\ PromiseState(jobs[k].prev) = "fulfilled"

\* what worker.recognize(buffer) resolves with
RecognizedText(b) == <<"text", b>>

Settled(k) == jobs[k].pc \in {"fulfilled", "rejected"}

\* what the caller of runOcr call k holds: `return queue` hands out the
\* promise the queue variable names after the assignment (ret), and a call
\* that threw at `await getWorker()` hands out a promise rejected with that error
ReturnedState(k) ==
    IF jobs[k].ret = -1
    THEN (IF jobs[k].pc = "rejected" THEN "rejected" ELSE "pending")
    ELSE PromiseState(jobs[k].ret)

\* the value that promise is fulfilled with; Promise.resolve() holds undefined
Undefined == <<>>
\* the value, were the caller handed whatever promise the queue variable names now
ReturnedValueOfTail(k) == IF queue = 0 THEN Undefined ELSE jobs[queue].value
ReturnedValue(k) == IF jobs[k].ret = 0 THEN Undefined ELSE jobs[jobs[k].ret].value

\* the reason that promise is rejected with
ReturnedErr(k) == IF jobs[k].ret = -1 THEN jobs[k].err ELSE PromiseErr(jobs[k].ret)

\* a continuation is ready to run: a runOcr call or a SIGINT handler suspended on
\* a settled workerPromise, a job whose predecessor in the chain has settled, or
\* a request handler suspended on a settled runOcr promise.
\* Node.js runs all such continuations (microtasks) before it takes the next
\* event (a request, a signal, a message from the engine).
MicrotaskRunnable ==
    \/ waiters # <<>> /\ workerPromise \in {"fulfilled", "rejected"}
    \/ \E k \in JobIds : CanStart(k)
    \/ \E k \in JobIds : jobs[k].pc = "queued" /\ PromiseState(jobs[k].prev) = "rejected"
    \/ \E h \in 1..Len(handlers) :
          handlers[h].pc = "awaitWorkerPromise" /\ workerPromise \in {"fulfilled", "rejected"}
    \/ \E r \in 1..Len(requests) :
          requests[r].pc = "runOcr"
             /\ ReturnedState(requests[r].job) \in {"fulfilled", "rejected"}

InitMgr ==
    /\ workerPromise = "null"
    /\ workerErr = NoErr
    /\ workerHandle = 0
    /\ initPc = "idle"
    /\ createWorkerCalls = 0
    /\ jobs = <<>>
    /\ waiters = <<>>
    /\ queue = 0
    /\ handlers = <<>>
    /\ terminateCalls = 0
    /\ exited = FALSE

\* runOcr(buffer) up to its first suspension: getWorker() runs synchronously,
\* starting the initialiser (and its createWorker call) when there is no promise yet.
\* What becomes of `requests` is for the caller to say.
RunOcr(b) ==
    /\ ~exited
    /\ ~MicrotaskRunnable
    /\ Len(jobs) < MaxJobs
    /\ IF NeedsInit(workerPromise)
       THEN /\ workerPromise' = "pending"
            /\ initPc' = "createWorker"
            /\ createWorkerCalls' = createWorkerCalls + 1
       ELSE UNCHANGED <<workerPromise, initPc, createWorkerCalls>>
    /\ jobs' = Append(jobs, [pc |-> "awaitGetWorker", buffer |-> b, worker |-> 0,
                             prev |-> -1, ret |-> -1, value |-> <<>>, err |-> NoErr,
                             calls |-> 0,
                             atCall |-> workerPromise'])
    /\ waiters' = Append(waiters, Len(jobs) + 1)
    /\ UNCHANGED <<workerErr, workerHandle, queue, handlers, terminateCalls, exited>>
    /\ UNCHANGED pureVars

\* `await createWorker("eng")` settles; on success the initialiser goes on to
\* call worker.setParameters
CreateWorkerSettles(ok) ==
    /\ ~exited
    /\ ~MicrotaskRunnable
    /\ initPc = "createWorker"
    /\ IF ok
       THEN /\ initPc' = "setParameters"
            /\ workerHandle' = createWorkerCalls
            /\ UNCHANGED <<workerPromise, workerErr>>
       ELSE /\ initPc' = "thrown"
            /\ workerPromise' = "rejected"
            /\ workerErr' = <<"createWorker", 0>>
            /\ UNCHANGED workerHandle
    /\ UNCHANGED <<createWorkerCalls, jobs, waiters, queue, handlers, terminateCalls, exited>>
    /\ UNCHANGED pureVars
    /\ UNCHANGED requests

\* `await worker.setParameters(...)` settles; on success the initialiser returns
\* the worker, which fulfils workerPromise
SetParametersSettles(ok) ==
    /\ ~exited
    /\ ~MicrotaskRunnable
    /\ initPc = "setParameters"
    /\ IF ok
       THEN /\ initPc' = "returned"
            /\ workerPromise' = "fulfilled"
            /\ UNCHANGED workerErr
       ELSE /\ initPc' = "thrown"
            /\ workerPromise' = "rejected"
            /\ workerErr' = <<"setParameters", 0>>
    /\ UNCHANGED <<workerHandle, createWorkerCalls, jobs, waiters, queue, handlers,
                   terminateCalls, exited>>
    /\ UNCHANGED pureVars
    /\ UNCHANGED requests

\* runOcr resumes after `await getWorker()`: reactions run in the order the
\* awaits were registered. On fulfilment it chains its job on the queue and
\* returns the new tail; on rejection the call throws.
ResumeRunOcr ==
    /\ ~exited
    /\ waiters # <<>>
    /\ workerPromise \in {"fulfilled", "rejected"}
    /\ LET k == Head(waiters) IN
       IF AwaitedPc(workerPromise) = "queued"
       THEN /\ jobs' = [jobs EXCEPT ![k].pc = "queued",
                                    ![k].worker = workerHandle,
                                    ![k].prev = queue,
                                    ![k].ret = ChainTail(queue, k)]
            /\ queue' = ChainTail(queue, k)
       ELSE /\ jobs' = [jobs EXCEPT ![k].pc = "rejected", ![k].err = workerErr]
            /\ UNCHANGED queue
    /\ waiters' = Tail(waiters)
    /\ UNCHANGED <<workerPromise, workerErr, workerHandle, initPc, createWorkerCalls,
                   handlers, terminateCalls, exited>>
    /\ UNCHANGED pureVars
    /\ UNCHANGED requests

\* the then-callback of job k runs: worker.recognize(buffer) is invoked
StartRecognize(k) ==
    /\ ~exited
    /\ CanStart(k)
    /\ jobs' = [jobs EXCEPT ![k].pc = "recognize", ![k].calls = @ + 1]
    /\ UNCHANGED <<workerPromise, workerErr, workerHandle, initPc, createWorkerCalls,
                   waiters, queue, handlers, terminateCalls, exited>>
    /\ UNCHANGED pureVars
    /\ UNCHANGED requests

\* worker.recognize(buffer) of job k settles, and with it job k's promise
RecognizeSettles(k, ok) ==
    /\ ~exited
    /\ ~MicrotaskRunnable
    /\ jobs[k].pc = "recognize"
    /\ IF ok
       THEN jobs' = [jobs EXCEPT ![k].pc = "fulfilled",
                                 ![k].value = RecognizedText(jobs[k].buffer)]
       ELSE jobs' = [jobs EXCEPT ![k].pc = "rejected", ![k].err = <<"recognize", k>>]
    /\ UNCHANGED <<workerPromise, workerErr, workerHandle, initPc, createWorkerCalls,
                   waiters, queue, handlers, terminateCalls, exited>>
    /\ UNCHANGED pureVars
    /\ UNCHANGED requests

\* queue.then(onFulfilled) has no rejection handler: when the promise job k was
\* chained on is rejected, job k's promise is rejected with the same reason and
\* its callback never runs
PassRejection(k) ==
    /\ ~exited
    /\ jobs[k].pc = "queued"
    /\ PromiseState(jobs[k].prev) = "rejected"
    /\ jobs' = [jobs EXCEPT ![k].pc = "rejected", ![k].err = PromiseErr(jobs[k].prev)]
    /\ UNCHANGED <<workerPromise, workerErr, workerHandle, initPc, createWorkerCalls,
                   waiters, queue, handlers, terminateCalls, exited>>
    /\ UNCHANGED pureVars
    /\ UNCHANGED requests

\* jobs chained on the queue and not settled
Pending == {k \in JobIds : jobs[k].pc \in {"queued", "recognize"}}

\* SIGINT is delivered: the handler runs up to `await workerPromise`, or straight
\* to process.exit(0) when there is no workerPromise
Sigint ==
    /\ ~exited
    /\ ~MicrotaskRunnable
    /\ Len(handlers) < MaxSignals
    /\ IF workerPromise # "null"
       THEN /\ handlers' = Append(handlers, [pc |-> "awaitWorkerPromise", snap |-> Pending])
            /\ UNCHANGED exited
       ELSE /\ handlers' = Append(handlers, [pc |-> "exit", snap |-> Pending])
            /\ exited' = TRUE
    /\ UNCHANGED <<workerPromise, workerErr, workerHandle, initPc, createWorkerCalls,
                   jobs, waiters, queue, terminateCalls>>
    /\ UNCHANGED pureVars
    /\ UNCHANGED requests

\* handler h resumes after `await workerPromise`: it calls w.terminate(), or,
\* when workerPromise is rejected, the empty catch leads to process.exit(0)
ResumeSigint(h) ==
    /\ ~exited
    /\ handlers[h].pc = "awaitWorkerPromise"
    /\ workerPromise \in {"fulfilled", "rejected"}
    /\ IF workerPromise = "fulfilled"
       THEN /\ handlers' = [handlers EXCEPT ![h].pc = "awaitTerminate"]
            /\ terminateCalls' = terminateCalls + 1
            /\ UNCHANGED exited
       ELSE /\ handlers' = [handlers EXCEPT ![h].pc = "exit"]
            /\ exited' = TRUE
            /\ UNCHANGED terminateCalls
    /\ UNCHANGED <<workerPromise, workerErr, workerHandle, initPc, createWorkerCalls,
                   jobs, waiters, queue>>
    /\ UNCHANGED pureVars
    /\ UNCHANGED requests

\* `await w.terminate()` of handler h settles; fulfilled or rejected (the catch
\* is empty), the handler goes on to process.exit(0)
TerminateSettles(h) ==
    /\ ~exited
    /\ ~MicrotaskRunnable
    /\ handlers[h].pc = "awaitTerminate"
    /\ handlers' = [handlers EXCEPT ![h].pc = "exit"]
    /\ exited' = TRUE
    /\ UNCHANGED <<workerPromise, workerErr, workerHandle, initPc, createWorkerCalls,
                   jobs, waiters, queue, terminateCalls>>
    /\ UNCHANGED pureVars
    /\ UNCHANGED requests

\* the normaliser driver is not in use
IdleNorm ==
    /\ token = <<>>
    /\ norm = <<>>
    /\ renorm = <<>>
    /\ npc = "off"

\* the extractor driver is not in use
IdleExt ==
    /\ text = <<>>
    /\ amounts = <<>>
    /\ epc = "off"

\* no GET /api/convert request is under way
IdleConv ==
    /\ camount = <<>>
    /\ cfrom = <<>>
    /\ cresp = <<>>

Init ==
    /\ InitMgr
    /\ IdleNorm
    /\ IdleExt
    /\ IdleConv
    /\ requests = <<>>

Next ==
    \/ \E b \in Buffers : RunOcr(b) /\ UNCHANGED requests
    \/ \E ok \in BOOLEAN : CreateWorkerSettles(ok)
    \/ \E ok \in BOOLEAN : SetParametersSettles(ok)
    \/ ResumeRunOcr
    \/ \E k \in JobIds : StartRecognize(k)
    \/ \E k \in JobIds, ok \in BOOLEAN : RecognizeSettles(k, ok)
    \/ \E k \in JobIds : PassRejection(k)
    \/ Sigint
    \/ \E h \in 1..Len(handlers) : ResumeSigint(h)
    \/ \E h \in 1..Len(handlers) : TerminateSettles(h)

Spec == Init /\ [][Next]_vars


(***************************************************************************)
(* The number token normaliser.  A string is a sequence of one-character   *)
(* strings; indices into it are 0-based as in the source, -1 is "absent".  *)
(***************************************************************************)

Digit == {"0", "1", "2", "3", "4", "5", "6", "7", "8", "9"}

\* the characters the regular expression class \s matches, as far as they are drawn
Whitespace == {" ", "\t", "\n", "\r"}

\* the characters raw tokens are drawn from
TokenChars == {"0", "1", "2", ".", ",", " "}

\* the tokens the documentation of the normaliser works out: "1.234,56",
\* "1,234.56", "3,49", "0,99"
SampleTokens ==
    { <<"1", ".", "2", "3", "4", ",", "5", "6">>,
      <<"1", ",", "2", "3", "4", ".", "5", "6">>,
      <<"3", ",", "4", "9">>,
      <<"0", ",", "9", "9">> }

Tokens == UNION {[1..n -> TokenChars] : n \in 0..MaxTokLen} \cup SampleTokens

\* String.prototype.trim
RECURSIVE Trim(_)
Trim(t) ==
    IF t = <<>> THEN t
    ELSE IF Head(t) \in Whitespace THEN Trim(Tail(t))
    ELSE IF t[Len(t)] \in Whitespace THEN Trim(SubSeq(t, 1, Len(t) - 1))
    ELSE t

\* t.replace(/\s/g, "")
RemoveWhitespace(t) == SelectSeq(t, LAMBDA c : c \notin Whitespace)

\* t.replace(/[^0-9.,]/g, "")
KeepDigitsAndSeparators(t) == SelectSeq(t, LAMBDA c : c \in Digit \cup {".", ","})

\* t.includes(c)
Includes(t, c) == \E i \in 1..Len(t) : t[i] = c

\* t.lastIndexOf(c)
LastIndexOf(t, c) ==
    LET at == {i \in 1..Len(t) : t[i] = c}
    IN  IF at = {} THEN -1 ELSE (CHOOSE i \in at : \A j \in at : j <= i) - 1

\* t.indexOf(c)
IndexOf(t, c) ==
    LET at == {i \in 1..Len(t) : t[i] = c}
    IN  IF at = {} THEN -1 ELSE (CHOOSE i \in at : \A j \in at : i <= j) - 1

\* t.slice(from, to) and t.slice(from), for 0 <= from; an end beyond the length
\* is the length
Slice(t, from, to) == SubSeq(t, from + 1, IF to > Len(t) THEN Len(t) ELSE to)
SliceFrom(t, from) == SubSeq(t, from + 1, Len(t))

\* t.split(sep), for a one-character separator
RECURSIVE Split(_, _)
Split(t, sep) ==
    LET i == IndexOf(t, sep)
    IN  IF i = -1 THEN <<t>>
        ELSE <<Slice(t, 0, i)>> \o Split(SliceFrom(t, i + 1), sep)

\* parts.join("")
RECURSIVE Join(_)
Join(parts) == IF parts = <<>> THEN <<>> ELSE Head(parts) \o Join(Tail(parts))

\* t.replace(/,/g, ".")
CommasToDots(t) == [i \in 1..Len(t) |-> IF t[i] = "," THEN "." ELSE t[i]]

\* /^0+\d/.test(t)
StartsWithZerosThenDigit(t) ==
    \E n \in 1..(Len(t) - 1) : (\A i \in 1..n : t[i] = "0") /\ t[n + 1] \in Digit

\* /^0\./.test(t)
StartsWithZeroDot(t) == Len(t) >= 2 /\ t[1] = "0" /\ t[2] = "."

\* t.replace(/^0+/, "")
RECURSIVE StripLeadingZeros(_)
StripLeadingZeros(t) ==
    IF t # <<>> /\ Head(t) = "0" THEN StripLeadingZeros(Tail(t)) ELSE t

\* the branch for a token that holds both '.' and ',', were the separator whose
\* last occurrence is further left taken as the decimal one
BothSeparatorsLeftmost(t) ==
    LET lastDot == LastIndexOf(t, ".")
        lastComma == LastIndexOf(t, ",")
        decSep == IF lastDot < lastComma THEN "." ELSE ","
        thouSep == IF decSep = "." THEN "," ELSE "."
        t1 == Join(Split(t, thouSep))
        idx == LastIndexOf(t1, decSep)
    IN  IF idx # -1 THEN Slice(t1, 0, idx) \o <<".">> \o SliceFrom(t1, idx + 1) ELSE t1

\* the branch for a token that holds both '.' and ','
BothSeparators(t) ==
    LET lastDot == LastIndexOf(t, ".")
        lastComma == LastIndexOf(t, ",")
        decSep == IF lastDot > lastComma THEN "." ELSE ","
        thouSep == IF decSep = "." THEN "," ELSE "."
        t1 == Join(Split(t, thouSep))
        idx == LastIndexOf(t1, decSep)
    IN  IF idx # -1 THEN Slice(t1, 0, idx) \o <<".">> \o SliceFrom(t1, idx + 1) ELSE t1

\* the branch for a token that holds at most one kind of separator
SingleSeparator(t) ==
    LET t1 == CommasToDots(t)
        parts == Split(t1, ".")
    IN  IF Len(parts) > 2
        THEN Join(SubSeq(parts, 1, Len(parts) - 1)) \o <<".">> \o parts[Len(parts)]
        ELSE t1

\* the removal of leading zeros that ends normalizeNumberToken
LeadingZeros(t) ==
    IF StartsWithZerosThenDigit(t) /\ ~StartsWithZeroDot(t) THEN StripLeadingZeros(t) ELSE t

normalizeNumberToken(tok) ==
    LET t == KeepDigitsAndSeparators(RemoveWhitespace(Trim(tok)))
    IN  IF t = <<>> THEN <<>>
        ELSE IF Includes(t, ".") /\ Includes(t, ",")
             THEN LeadingZeros(BothSeparators(t))
             ELSE LeadingZeros(SingleSeparator(t))

\* the extraction pattern /[0-9][0-9.,\s]{0,15}[0-9]/ matches the whole of s
MatchesTokenPattern(s) ==
    /\ Len(s) >= 2
    /\ Len(s) <= 17
    /\ s[1] \in Digit
    /\ s[Len(s)] \in Digit
    /\ \A i \in 2..(Len(s) - 1) : s[i] \in Digit \cup {".", ","} \cup Whitespace

InitNorm ==
    /\ InitMgr
    /\ IdleExt
    /\ IdleConv
    /\ requests = <<>>
    /\ token \in Tokens
    /\ norm = <<>>
    /\ renorm = <<>>
    /\ npc = "start"

\* normalizeNumberToken is applied to the raw token
Normalize ==
    /\ npc = "start"
    /\ norm' = normalizeNumberToken(token)
    /\ npc' = "normalized"
    /\ UNCHANGED <<token, renorm>>
    /\ UNCHANGED <<mgrVars, extVars, convVars, requests>>

\* normalizeNumberToken is applied to its own result
Renormalize ==
    /\ npc = "normalized"
    /\ renorm' = normalizeNumberToken(norm)
    /\ npc' = "renormalized"
    /\ UNCHANGED <<token, norm>>
    /\ UNCHANGED <<mgrVars, extVars, convVars, requests>>

NextNorm ==
    \/ Normalize
    \/ Renormalize

SpecNorm == InitNorm /\ [][NextNorm]_vars

(***************************************************************************)
(* The candidate extractor and ranker, extractAmounts.  A number is a      *)
(* record [nan, int, frac]: int is the integral part and frac the digits   *)
(* after the point with trailing zeros dropped, so that equal numbers are  *)
(* equal records.  A score is counted in tenths.                           *)
(***************************************************************************)

\* {0,15} of the token pattern
MaxMiddle == 15

\* amounts.slice(0, 8)
MaxCandidates == 8

\* val >= 100000
UpperLimit == 100000

\* val <= 5000 of the typical price range
TypicalMax == 5000

DigitChars == <<"0", "1", "2", "3", "4", "5", "6", "7", "8", "9">>

DigitValue(c) == (CHOOSE n \in 1..10 : DigitChars[n] = c) - 1

\* a character of the class [0-9.,\s]
InClass(c) == c \in Digit \cup {".", ","} \cup Whitespace

\* length of the match of /[0-9][0-9.,\s]{0,15}[0-9]/ that starts at position i
\* (1-based) of raw, 0 when there is none: the quantifier is greedy, so it is
\* the longest one
MatchLen(raw, i) ==
    IF raw[i] \notin Digit THEN 0
    ELSE LET ends == {n \in 2..(MaxMiddle + 2) :
                         /\ i + n - 1 <= Len(raw)
                         /\ raw[i + n - 1] \in Digit
                         /\ \A j \in (i + 1)..(i + n - 2) : InClass(raw[j])}
         IN  IF ends = {} THEN 0 ELSE CHOOSE n \in ends : \A m \in ends : m <= n

\* raw.match(/.../g) from position i on: the matches, left to right, not overlapping
RECURSIVE MatchAll(_, _)
MatchAll(raw, i) ==
    IF i > Len(raw) THEN <<>>
    ELSE LET n == MatchLen(raw, i)
         IN  IF n = 0 THEN MatchAll(raw, i + 1)
             ELSE <<SubSeq(raw, i, i + n - 1)>> \o MatchAll(raw, i + n)

\* the longest prefix of t made of digits
RECURSIVE DigitPrefix(_)
DigitPrefix(t) ==
    IF t # <<>> /\ Head(t) \in Digit THEN <<Head(t)>> \o DigitPrefix(Tail(t)) ELSE <<>>

\* the number a sequence of digits denotes; a number of 1000000 or more is
\* recorded as 1000000 (every such number is beyond the limit of extractAmounts)
RECURSIVE DigitsToNat(_)
DigitsToNat(ds) ==
    IF ds = <<>> THEN 0
    ELSE LET v == DigitsToNat(SubSeq(ds, 1, Len(ds) - 1)) * 10 + DigitValue(ds[Len(ds)])
         IN  IF v > 1000000 THEN 1000000 ELSE v

RECURSIVE StripTrailingZeros(_)
StripTrailingZeros(ds) ==
    IF ds # <<>> /\ ds[Len(ds)] = "0" THEN StripTrailingZeros(SubSeq(ds, 1, Len(ds) - 1))
    ELSE ds

NaN == [nan |-> TRUE, int |-> 0, frac |-> <<>>]

Num(i, f) == [nan |-> FALSE, int |-> i, frac |-> f]

\* Number.parseFloat(t), t holding digits and separators only: the longest
\* prefix that is a decimal literal (digits, then optionally '.' and digits;
\* or '.' and digits), NaN when there is none
ParseFloat(t) ==
    LET ip == DigitPrefix(t)
        rest == SubSeq(t, Len(ip) + 1, Len(t))
        fp == IF rest # <<>> /\ Head(rest) = "." THEN DigitPrefix(Tail(rest)) ELSE <<>>
    IN  IF ip = <<>> /\ fp = <<>> THEN NaN
        ELSE Num(DigitsToNat(ip), StripTrailingZeros(fp))

\* f < g for two fractions (digits after the point, no trailing zeros)
FracLess(f, g) ==
    \E i \in 1..Len(g) :
        /\ \A j \in 1..(i - 1) : j <= Len(f) /\ f[j] = g[j]
        /\ \/ i > Len(f)
           \/ i <= Len(f) /\ DigitValue(f[i]) < DigitValue(g[i])

\* a < b for two numbers that are not NaN
Less(a, b) == a.int < b.int \/ (a.int = b.int /\ FracLess(a.frac, b.frac))

\* Number.isFinite(val)
IsFinite(val) == ~val.nan

\* val.toFixed(2), as the number of hundredths it spells.  A value exactly
\* half way between two hundredths is rounded as its binary representation
\* falls; no text drawn holds a number whose third and last decimal is 5, so
\* no such value arises here.
ToFixed2(val) ==
    val.int * 100
      + (IF Len(val.frac) >= 1 THEN DigitValue(val.frac[1]) * 10 ELSE 0)
      + (IF Len(val.frac) >= 2 THEN DigitValue(val.frac[2]) ELSE 0)
      + (IF Len(val.frac) >= 3 /\ DigitValue(val.frac[3]) >= 5 THEN 1 ELSE 0)

\* `val <= 0 || val >= 100000`, were the lower test `val < 0`
OutOfRangeZeroAllowed(val) == val.int >= UpperLimit
\* `val <= 0 || val >= 100000`
OutOfRange(val) == (val.int = 0 /\ val.frac = <<>>) \/ val.int >= UpperLimit

\* /\.\d{1,2}$/.test(norm)
HasDecimals(t) ==
    \E n \in 1..2 :
        /\ Len(t) >= n + 1
        /\ t[Len(t) - n] = "."
        /\ \A j \in (Len(t) - n + 1)..Len(t) : t[j] \in Digit

\* val >= 0.2 && val <= 5000
InTypicalRange(val) ==
    /\ ~Less(val, Num(0, <<"2">>))
    /\ ~Less(Num(TypicalMax, <<>>), val)

\* the score, were the length term norm.length / 10 without its cap
ScoreUncapped(t, val) ==
    (IF HasDecimals(t) THEN 20 ELSE 0)
      + (IF InTypicalRange(val) THEN 20 ELSE 0)
      + Len(t)

\* hasDecimals * 2 + inTypicalRange * 2 + Math.min(norm.length, 10) / 10, in tenths
Score(t, val) ==
    (IF HasDecimals(t) THEN 20 ELSE 0)
      + (IF InTypicalRange(val) THEN 20 ELSE 0)
      + (IF Len(t) < 10 THEN Len(t) ELSE 10)

\* one turn of the loop over the tokens, were a repeated key to replace the
\* candidate recorded for it
LoopBodyLastWins(acc, tok) ==
    LET nrm == normalizeNumberToken(tok)
        val == ParseFloat(nrm)
        cand == [value |-> val, normalized |-> nrm, score |-> Score(nrm, val)]
    IN  IF nrm = <<>> THEN acc
        ELSE IF ~IsFinite(val) THEN acc
        ELSE IF OutOfRange(val) THEN acc
        ELSE IF ToFixed2(val) \in acc.seen
             THEN [acc EXCEPT !.amounts =
                      [i \in 1..Len(acc.amounts) |->
                          IF ToFixed2(acc.amounts[i].value) = ToFixed2(val)
                          THEN cand ELSE acc.amounts[i]]]
        ELSE [seen |-> acc.seen \cup {ToFixed2(val)}, amounts |-> Append(acc.amounts, cand)]

\* one turn of the loop over the tokens: acc holds `seen` and `amounts`
LoopBody(acc, tok) ==
    LET nrm == normalizeNumberToken(tok)
        val == ParseFloat(nrm)
    IN  IF nrm = <<>> THEN acc
        ELSE IF ~IsFinite(val) THEN acc
        ELSE IF OutOfRange(val) THEN acc
        ELSE IF ToFixed2(val) \in acc.seen THEN acc
        ELSE [seen |-> acc.seen \cup {ToFixed2(val)},
              amounts |-> Append(acc.amounts,
                                 [value |-> val, normalized |-> nrm,
                                  score |-> Score(nrm, val)])]

\* the loop over the tokens
RECURSIVE Collect(_, _)
Collect(tokens, acc) ==
    IF tokens = <<>> THEN acc.amounts
    ELSE Collect(Tail(tokens), LoopBody(acc, Head(tokens)))

\* the comparator with its operands exchanged: `a.score - b.score || a.value - b.value`
CompareAscending(a, b) ==
    IF a.score - b.score # 0 THEN a.score - b.score
    ELSE IF Less(b.value, a.value) THEN 1
    ELSE IF Less(a.value, b.value) THEN -1
    ELSE 0
\* the comparator `b.score - a.score`, without the tie-break on the value
CompareScoreOnly(a, b) ==
    IF b.score - a.score # 0 THEN b.score - a.score ELSE 0
\* the comparator `b.score - a.score || b.value - a.value`: negative when a
\* is to come before b
Compare(a, b) ==
    IF b.score - a.score # 0 THEN b.score - a.score
    ELSE IF Less(a.value, b.value) THEN 1
    ELSE IF Less(b.value, a.value) THEN -1
    ELSE 0

\* Array.prototype.sort is stable: x goes behind every element it does not
\* come before
RECURSIVE Insert(_, _)
Insert(sorted, x) ==
    IF sorted = <<>> THEN <<x>>
    ELSE IF Compare(x, Head(sorted)) < 0 THEN <<x>> \o sorted
    ELSE <<Head(sorted)>> \o Insert(Tail(sorted), x)

\* amounts.sort(...)
RECURSIVE Sort(_)
Sort(a) ==
    IF a = <<>> THEN <<>>
    ELSE Insert(Sort(SubSeq(a, 1, Len(a) - 1)), a[Len(a)])

\* the last two lines of extractAmounts, were the slice taken before the sort
SortAndSliceSwapped(a) == Sort(Slice(a, 0, MaxCandidates))
\* amounts.sort(...); return amounts.slice(0, 8)
SortAndSlice(a) == Slice(Sort(a), 0, MaxCandidates)

extractAmounts(raw) ==
    SortAndSlice(Collect(MatchAll(raw, 1), [seen |-> {}, amounts |-> <<>>]))

\* the characters short texts are drawn from; "x" is a character outside [0-9.,\s]
TextChars == {"0", "1", "2", ".", ",", " ", "x"}

ShortTexts == UNION {[1..n -> TextChars] : n \in 0..MaxTextLen}

\* tokens that texts are put together from: equal and nearly equal amounts,
\* amounts at the limits of the accepted range and of the typical range
PoolTokens ==
    { <<"1", ".", "2", "0">>, <<"1", ".", "2">>, <<"1", ".", "2", "0", "9">>,
      <<"1", ".", "2", "1">>, <<"0", ".", "0">>, <<"1", "0", "0", "0", "0", "0">>,
      <<"9", "9", "9", "9", "9">>, <<"0", ".", "1">>, <<"5", "0", "0", "0">>,
      <<"2", ".", "1", "0">>, <<"2", ".", ",", ".", "2">>, <<"1", "2", ",", "0", "0">>,
      <<"1", ".", "0", "1", "0", "1", "0", "1", "0", "1", "0", "1", "2">> }

\* the tokens of ts in a row, an "x" between any two
RECURSIVE JoinTokens(_)
JoinTokens(ts) ==
    IF ts = <<>> THEN <<>>
    ELSE IF Len(ts) = 1 THEN ts[1]
    ELSE ts[1] \o <<"x">> \o JoinTokens(Tail(ts))

PoolTexts == {JoinTokens(ts) : ts \in UNION {[1..n -> PoolTokens] : n \in 1..MaxTextTokens}}

\* ten tokens of pairwise different amounts, of which the third and the last
\* score lowest
LongTokens ==
    << <<"0", ".", "1">>, <<"1", ".", "2", "0">>, <<"9", "9", "9", "9", "9">>,
       <<"2", ".", "1", "0">>, <<"5", "0", "0", "0">>, <<"1", ".", "2", "0", "9">>,
       <<"1", "2", ",", "0", "0">>, <<"3", ".", "4", "9">>, <<"0", ".", "2">>,
       <<"7", "0", "0", "0">> >>

\* the texts of nine or ten of these tokens, in each of their rotations
LongTexts ==
    {JoinTokens([i \in 1..n |-> LongTokens[((i + r) % Len(LongTokens)) + 1]]) :
        r \in 0..(Len(LongTokens) - 1), n \in {Len(LongTokens) - 1, Len(LongTokens)}}

\* the text "Цена 3.49 лв. стар 12,00"; a Latin letter stands for each Cyrillic
\* one, all of them characters outside [0-9.,\s]
SampleText ==
    <<"C", "e", "n", "a", " ", "3", ".", "4", "9", " ", "l", "v", ".", " ",
      "s", "t", "a", "r", " ", "1", "2", ",", "0", "0">>

Texts == ShortTexts \cup PoolTexts \cup LongTexts \cup {SampleText}

InitExt ==
    /\ InitMgr
    /\ IdleNorm
    /\ IdleConv
    /\ requests = <<>>
    /\ text \in Texts
    /\ amounts = <<>>
    /\ epc = "start"

\* extractAmounts is applied to the text
Extract ==
    /\ epc = "start"
    /\ amounts' = extractAmounts(text)
    /\ epc' = "done"
    /\ UNCHANGED text
    /\ UNCHANGED <<mgrVars, normVars, convVars, requests>>

NextExt == Extract

SpecExt == InitExt /\ [][NextExt]_vars

(***************************************************************************)
(* GET /api/convert.                                                       *)
(***************************************************************************)

\* RATE, in hundred-thousandths
Rate == 195583

\* a query parameter that is not in the request (undefined), and one that is
Absent == [present |-> FALSE, value |-> <<>>]
Given(s) == [present |-> TRUE, value |-> s]

LowerCase ==
    <<"a", "b", "c", "d", "e", "f", "g", "h", "i", "j", "k", "l", "m",
      "n", "o", "p", "q", "r", "s", "t", "u", "v", "w", "x", "y", "z">>
UpperCase ==
    <<"A", "B", "C", "D", "E", "F", "G", "H", "I", "J", "K", "L", "M",
      "N", "O", "P", "Q", "R", "S", "T", "U", "V", "W", "X", "Y", "Z">>

\* String.prototype.toUpperCase
ToUpperCase(t) ==
    [i \in 1..Len(t) |->
        IF \E n \in 1..Len(LowerCase) : LowerCase[n] = t[i]
        THEN UpperCase[CHOOSE n \in 1..Len(LowerCase) : LowerCase[n] = t[i]]
        ELSE t[i]]

\* the numbers of the endpoint: NaN, an infinity, or a signed decimal
NotANumber == [nan |-> TRUE, inf |-> FALSE, neg |-> FALSE, int |-> 0, frac |-> <<>>]
Infinite(n) == [nan |-> FALSE, inf |-> TRUE, neg |-> n, int |-> 0, frac |-> <<>>]
Decimal(n, i, f) == [nan |-> FALSE, inf |-> FALSE, neg |-> n, int |-> i, frac |-> f]

\* Number(s) for a string without sign: the empty string is 0, "Infinity" is
\* infinite, digits with an optional point and fraction (or a point and a
\* fraction) are that decimal, anything else is NaN.  Literals with an
\* exponent or a radix prefix are not among the values drawn.
UnsignedToNumber(s, n) ==
    LET ip == DigitPrefix(s)
        rest == SubSeq(s, Len(ip) + 1, Len(s))
        fp == IF rest # <<>> /\ Head(rest) = "." THEN DigitPrefix(Tail(rest)) ELSE <<>>
        whole == rest = <<>> \/ (Head(rest) = "." /\ Len(fp) = Len(rest) - 1)
    IN  IF s = <<"I", "n", "f", "i", "n", "i", "t", "y">> THEN Infinite(n)
        ELSE IF (ip = <<>> /\ fp = <<>>) \/ ~whole THEN NotANumber
        ELSE Decimal(n, DigitsToNat(ip), StripTrailingZeros(fp))

\* Number(req.query.amount): undefined gives NaN; a string is trimmed first
ToNumber(q) ==
    IF ~q.present THEN NotANumber
    ELSE LET s == Trim(q.value)
         IN  IF s = <<>> THEN Decimal(FALSE, 0, <<>>)
             ELSE IF Head(s) \in {"+", "-"} THEN
                     IF Len(s) = 1 THEN NotANumber
                     ELSE UnsignedToNumber(Tail(s), Head(s) = "-")
             ELSE UnsignedToNumber(s, FALSE)

\* Number.isFinite
NumberIsFinite(v) == ~v.nan /\ ~v.inf

\* String(req.query.from), with neither the default nor the upper-casing
FromAsGiven(q) == IF q.present THEN q.value ELSE <<"u", "n", "d", "e", "f", "i", "n", "e", "d">>
\* String(req.query.from || "BGN").toUpperCase()
FromOf(q) ==
    ToUpperCase(IF q.present /\ q.value # <<>> THEN q.value ELSE <<"B", "G", "N">>)

BGN == <<"B", "G", "N">>
EUR == <<"E", "U", "R">>

\* a finite decimal of at most two decimals, in hundredths
Hundredths(v) ==
    LET f == v.frac \o <<"0", "0">>
        h == v.int * 100 + DigitsToNat(SubSeq(f, 1, 2))
    IN  IF v.neg THEN 0 - h ELSE h

\* Math.round(n / d) for d > 0: halves go up
RoundDiv(n, d) == (2 * n + d) \div (2 * d)

\* round2(amount / RATE) and round2(amount * RATE), in hundredths, amount
\* given in hundredths
EurOfBgn(h) == RoundDiv(h * 100000, Rate)
BgnOfEur(h) == RoundDiv(h * Rate, 100000)

\* the values of the amount parameter drawn
QueryAmounts ==
    { Absent, Given(<<>>), Given(<<"1", "0">>), Given(<<"1", "2", ".", "3", "4">>),
      Given(<<"-", "1">>), Given(<<"a", "b", "c">>),
      Given(<<"I", "n", "f", "i", "n", "i", "t", "y">>),
      Given(<<"-", "I", "n", "f", "i", "n", "i", "t", "y">>),
      Given(<<" ", "7", " ">>), Given(<<"0">>), Given(<<"1", ".", "5", ".", "2">>),
      Given(<<".">>), Given(<<"1", "0", "x">>), Given(<<"N", "a", "N">>) }

\* the values of the from parameter drawn
QueryFroms ==
    { Absent, Given(<<>>), Given(BGN), Given(EUR), Given(<<"b", "g", "n">>),
      Given(<<"e", "u", "r">>), Given(<<"B", "g", "n">>), Given(<<"U", "S", "D">>),
      Given(<<"u", "s", "d">>), Given(<<"B", "G", "N", "X">>), Given(<<" ", "B", "G", "N">>) }

NoResponse == [status |-> 0, body |-> [error |-> "none"]]

InitConv ==
    /\ InitMgr
    /\ IdleNorm
    /\ IdleExt
    /\ requests = <<>>
    /\ camount \in QueryAmounts
    /\ cfrom \in QueryFroms
    /\ cresp = NoResponse

\* the handler of GET /api/convert answers the request
Convert ==
    /\ cresp = NoResponse
    /\ LET amount == ToNumber(camount)
           from == FromOf(cfrom)
       IN  cresp' =
             IF ~NumberIsFinite(amount)
             THEN [status |-> 400, body |-> [error |-> "Invalid amount"]]
             ELSE IF from # BGN /\ from # EUR
             THEN [status |-> 400, body |-> [error |-> "from must be BGN or EUR"]]
             ELSE [status |-> 200,
                   body |-> [rate |-> Rate, amount |-> amount, from |-> from,
                             bgn |-> IF from = EUR THEN BgnOfEur(Hundredths(amount))
                                     ELSE Hundredths(amount),
                             eur |-> IF from = BGN THEN EurOfBgn(Hundredths(amount))
                                     ELSE Hundredths(amount)]]
    /\ UNCHANGED <<camount, cfrom>>
    /\ UNCHANGED <<mgrVars, normVars, extVars, requests>>

NextConv == Convert

SpecConv == InitConv /\ [][NextConv]_vars

(***************************************************************************)
(* POST /api/ocr.                                                          *)
(***************************************************************************)

\* req.file: the buffer of an uploaded image, or "none" when the field is missing
Files == Buffers \cup {"none"}

\* what the sharp pipeline makes of a buffer
Preprocessed(b) == <<"pre", b>>

\* result.data.text and result.data.confidence of a recognition result: the
\* engine reads the sample text off one image and nothing off the other
EngineText(result) ==
    IF result # Undefined /\ result[2][2] = "imgA" THEN SampleText ELSE <<>>
EngineConfidence(result) ==
    IF result # Undefined THEN <<"confidence", result[2]>> ELSE <<>>

\* String(e?.message || e)
Message(err) == <<"message", err[1], err[2]>>

MissingFile ==
    [status |-> 400, body |-> [error |-> "Missing image file (field name: image)"]]

OcrFailed(err) ==
    [status |-> 500, body |-> [error |-> "OCR failed", details |-> Message(err)]]

\* the answer built from a recognition result
OcrOk(result) ==
    LET found == extractAmounts(EngineText(result))
    IN  [status |-> 200,
         body |-> [ok |-> TRUE, rate |-> Rate, confidence |-> EngineConfidence(result),
                   bestAmount |-> IF found # <<>> THEN <<found[1].value>> ELSE <<>>,
                   candidates |-> [i \in 1..Len(found) |->
                                      [value |-> found[i].value,
                                       normalized |-> found[i].normalized]],
                   rawText |-> EngineText(result)]]

\* the arrival of a request, were the handler to call getWorker() before it
\* looks at the file
PostOcrWarmingUp(f) ==
    /\ ~exited
    /\ ~MicrotaskRunnable
    /\ Len(requests) < MaxRequests
    /\ requests' = Append(requests,
          IF f = "none"
          THEN [pc |-> "done", file |-> f, job |-> 0, err |-> NoErr,
                responses |-> <<MissingFile>>]
          ELSE [pc |-> "sharp", file |-> f, job |-> 0, err |-> NoErr,
                responses |-> <<>>])
    /\ IF NeedsInit(workerPromise)
       THEN /\ workerPromise' = "pending"
            /\ initPc' = "createWorker"
            /\ createWorkerCalls' = createWorkerCalls + 1
       ELSE UNCHANGED <<workerPromise, initPc, createWorkerCalls>>
    /\ UNCHANGED <<workerErr, workerHandle, jobs, waiters, queue, handlers,
                   terminateCalls, exited>>
    /\ UNCHANGED pureVars

\* a POST /api/ocr request arrives: without a file it is answered 400 at once,
\* with a file the handler starts the sharp pipeline and awaits it
PostOcr(f) ==
    /\ ~exited
    /\ ~MicrotaskRunnable
    /\ Len(requests) < MaxRequests
    /\ requests' = Append(requests,
          IF f = "none"
          THEN [pc |-> "done", file |-> f, job |-> 0, err |-> NoErr,
                responses |-> <<MissingFile>>]
          ELSE [pc |-> "sharp", file |-> f, job |-> 0, err |-> NoErr,
                responses |-> <<>>])
    /\ UNCHANGED mgrVars
    /\ UNCHANGED pureVars

\* the sharp pipeline of request r settles: on success the handler calls
\* runOcr(pre) and awaits it, on failure the catch answers 500
SharpSettles(r, ok) ==
    /\ requests[r].pc = "sharp"
    /\ IF ok
       THEN /\ RunOcr(Preprocessed(requests[r].file))
            /\ requests' = [requests EXCEPT ![r].pc = "runOcr", ![r].job = Len(jobs) + 1]
       ELSE /\ ~exited
            /\ ~MicrotaskRunnable
            /\ requests' = [requests EXCEPT ![r].pc = "done", ![r].err = <<"sharp", r>>,
                                            ![r].responses = Append(@, OcrFailed(<<"sharp", r>>))]
            /\ UNCHANGED mgrVars
            /\ UNCHANGED pureVars

\* the handler of request r resumes after `await runOcr(pre)`: it answers 200
\* with the amounts found in the text, or the catch answers 500
Respond(r) ==
    /\ ~exited
    /\ requests[r].pc = "runOcr"
    /\ ReturnedState(requests[r].job) \in {"fulfilled", "rejected"}
    /\ LET j == requests[r].job
       IN  requests' = [requests EXCEPT
                ![r].pc = "done",
                ![r].responses = Append(@, IF ReturnedState(j) = "fulfilled"
                                           THEN OcrOk(ReturnedValue(j))
                                           ELSE OcrFailed(ReturnedErr(j)))]
    /\ UNCHANGED mgrVars
    /\ UNCHANGED pureVars

InitOcr ==
    /\ InitMgr
    /\ IdleNorm
    /\ IdleExt
    /\ IdleConv
    /\ requests = <<>>

NextOcr ==
    \/ \E f \in Files : PostOcr(f)
    \/ \E r \in 1..Len(requests), ok \in BOOLEAN : SharpSettles(r, ok)
    \/ \E r \in 1..Len(requests) : Respond(r)
    \/ \E ok \in BOOLEAN : CreateWorkerSettles(ok)
    \/ \E ok \in BOOLEAN : SetParametersSettles(ok)
    \/ ResumeRunOcr
    \/ \E k \in JobIds : StartRecognize(k)
    \/ \E k \in JobIds, ok \in BOOLEAN : RecognizeSettles(k, ok)
    \/ \E k \in JobIds : PassRejection(k)
    \/ Sigint
    \/ \E h \in 1..Len(handlers) : ResumeSigint(h)
    \/ \E h \in 1..Len(handlers) : TerminateSettles(h)

SpecOcr == InitOcr /\ [][NextOcr]_vars

(***************************************************************************)
(* Properties of the recognition engine manager.                           *)
(***************************************************************************)

InFlight == {k \in JobIds : jobs[k].pc = "recognize"}

\* C1: at most one worker.recognize invocation is in flight at any time, and
\* the recognition of a job has started only if the job submitted just before
\* it has settled.
OneRecognizeInFlight ==
    /\ Cardinality(InFlight) <= 1
    /\ \A k \in JobIds : (k > 1 /\ jobs[k].calls > 0) => Settled(k - 1)

\* a recognition is in flight while another job waits behind it in the queue
OneRecognizeInFlightWitness ==
    \E j, k \in JobIds : jobs[j].pc = "recognize" /\ jobs[k].pc = "queued"

\* C2: createWorker is invoked at most once, every caller that obtained a
\* worker obtained the same one, and while the initialisation is pending every
\* caller so far is suspended on it.
SingleEngine ==
    /\ createWorkerCalls <= 1
    /\ \A k \in JobIds : jobs[k].worker # 0 => jobs[k].worker = workerHandle
    /\ \A j, k \in JobIds :
          (jobs[j].worker # 0 /\ jobs[k].worker # 0) => jobs[j].worker = jobs[k].worker
    /\ workerPromise = "pending" => \A k \in JobIds : jobs[k].pc = "awaitGetWorker"

\* two callers arrived while the initialisation was pending and both hold the
\* one worker
SingleEngineWitness ==
    /\ Len(jobs) >= 2
    /\ createWorkerCalls = 1
    /\ \A k \in JobIds : jobs[k].atCall = "pending" /\ jobs[k].worker = workerHandle
    /\ workerHandle # 0

\* C3: jobs run and complete in submission order: when a was submitted before
\* b, b's recognition has started only if a has settled, and b has settled
\* only if a has settled.
SubmissionOrder ==
    \A a, b \in JobIds :
        a < b => /\ jobs[b].calls > 0 => Settled(a)
                 /\ Settled(b) => Settled(a)

\* two calls arrived while the initialisation was pending, and both were
\* recognised
SubmissionOrderWitness ==
    /\ Len(jobs) >= 2
    /\ \A k \in JobIds : /\ jobs[k].atCall = "pending"
                         /\ jobs[k].calls = 1
                         /\ jobs[k].pc = "fulfilled"

\* C4: when worker.recognize fails for a job, only that job's promise rejects:
\* every other job that settles had its own recognition executed and did not
\* receive that job's error.
OnlyFailedJobRejects ==
    \A j \in JobIds :
        jobs[j].err = <<"recognize", j>> =>
            \A k \in JobIds \ {j} :
                Settled(k) => (jobs[k].calls = 1 /\ jobs[k].err # jobs[j].err)

\* C5: after an initialisation failure no failed state is retained: the next
\* runOcr call starts a new initialisation attempt.
RetryAfterInitFailure ==
    [][(workerPromise = "rejected" /\ Len(jobs') = Len(jobs) + 1)
          => (createWorkerCalls' = createWorkerCalls + 1 /\ workerPromise' = "pending")]_vars

\* C6: worker.terminate is called, and the process exits, only after the
\* recognition in flight and all jobs queued when SIGINT arrived have settled.
TerminateAfterDrain ==
    [][\A h \in 1..Len(handlers) :
          (handlers[h].pc # handlers'[h].pc /\ handlers'[h].pc \in {"awaitTerminate", "exit"})
              => \A k \in handlers[h].snap : Settled(k)]_vars

\* C7: worker.terminate is invoked at most once, however many SIGINT handlers run.
TerminateAtMostOnce == terminateCalls <= 1

\* C8: every job chained on the queue of an initialised engine has its
\* recognition executed exactly once: never repeated, and, with no shutdown
\* under way, not skipped when the job settles.
RecognizedExactlyOnce ==
    \A k \in JobIds :
        /\ jobs[k].calls <= 1
        /\ (handlers = <<>> /\ workerPromise = "fulfilled" /\ Settled(k)) => jobs[k].calls = 1

\* C9: when the initialisation fails, every caller that was awaiting the
\* pending initialisation is rejected with the initialisation's error, and
\* worker.recognize is not invoked for any of them.
InitFailureRejectsWaiters ==
    workerPromise = "rejected" =>
        \A k \in JobIds :
            jobs[k].atCall = "pending" =>
                /\ jobs[k].calls = 0
                /\ jobs[k].pc \in {"awaitGetWorker", "rejected"}
                /\ jobs[k].pc = "rejected" => jobs[k].err = workerErr

\* two callers awaited the initialisation that failed, and both were rejected
InitFailureRejectsWaitersWitness ==
    /\ workerPromise = "rejected"
    /\ Len(jobs) >= 2
    /\ \A k \in JobIds : /\ jobs[k].atCall = "pending"
                         /\ jobs[k].pc = "rejected"
                         /\ jobs[k].err = workerErr


(***************************************************************************)
(* Properties of the number token normaliser.                              *)
(***************************************************************************)

\* C10: normalizeNumberToken is idempotent on its own output: for every token
\* matched by the extraction pattern whose normalisation is not empty,
\* normalising the result again gives the same result.
NormalizeIdempotent ==
    (npc = "renormalized" /\ MatchesTokenPattern(token) /\ norm # <<>>) => renorm = norm


\* a canonical decimal string: digits and at most one '.', no ','
Canonical(t) ==
    /\ \A i \in 1..Len(t) : t[i] \in Digit \cup {"."}
    /\ Cardinality({i \in 1..Len(t) : t[i] = "."}) <= 1

\* C11: for every token matched by the extraction pattern, a non-empty result
\* of normalizeNumberToken is canonical: only digits and at most one '.', and
\* no ','.
NormalizedIsCanonical ==
    (npc = "normalized" /\ MatchesTokenPattern(token) /\ norm # <<>>) => Canonical(norm)

\* the token with whitespace and foreign characters stripped
Stripped(tok) == KeepDigitsAndSeparators(RemoveWhitespace(Trim(tok)))

\* index (0-based) of the last separator of either kind, -1 when there is none
LastSeparator(t) ==
    IF LastIndexOf(t, ".") > LastIndexOf(t, ",") THEN LastIndexOf(t, ".")
    ELSE LastIndexOf(t, ",")

\* C12: the separators are resolved as the reference algorithm prescribes:
\* "1.234,56" and "1,234.56" give "1234.56", "3,49" gives "3.49", "0,99" gives
\* "0.99"; whenever the token holds a separator, the digits after its last
\* separator are the digits after the last '.' of the result; and with one
\* kind of separator the result holds exactly one '.' and no ','.
SeparatorsResolved ==
    npc = "normalized" =>
        /\ token = <<"1", ".", "2", "3", "4", ",", "5", "6">>
              => norm = <<"1", "2", "3", "4", ".", "5", "6">>
        /\ token = <<"1", ",", "2", "3", "4", ".", "5", "6">>
              => norm = <<"1", "2", "3", "4", ".", "5", "6">>
        /\ token = <<"3", ",", "4", "9">> => norm = <<"3", ".", "4", "9">>
        /\ token = <<"0", ",", "9", "9">> => norm = <<"0", ".", "9", "9">>
        /\ LastSeparator(Stripped(token)) # -1
              => /\ LastIndexOf(norm, ".") # -1
                 /\ SliceFrom(norm, LastIndexOf(norm, ".") + 1)
                       = SliceFrom(Stripped(token), LastSeparator(Stripped(token)) + 1)
        /\ (LastSeparator(Stripped(token)) # -1
              /\ ~(Includes(token, ".") /\ Includes(token, ",")))
              => /\ Cardinality({i \in 1..Len(norm) : norm[i] = "."}) = 1
                 /\ ~Includes(norm, ",")

\* "1.234,56" has been normalised to "1234.56"
SeparatorsResolvedWitness ==
    /\ npc = "normalized"
    /\ token = <<"1", ".", "2", "3", "4", ",", "5", "6">>
    /\ norm = <<"1", "2", "3", "4", ".", "5", "6">>

\* C13: normalizeNumberToken returns the empty string for every input that
\* holds no digit, such as "..", "," or ",.".
NoDigitGivesEmpty ==
    (npc = "normalized" /\ \A i \in 1..Len(token) : token[i] \notin Digit) => norm = <<>>


(***************************************************************************)
(* Properties of the candidate extractor.                                  *)
(***************************************************************************)

\* the tokens of the text, and the number each one is read as
TextTokens == MatchAll(text, 1)
TokenValue(n) == ParseFloat(normalizeNumberToken(TextTokens[n]))
Zero == Num(0, <<>>)

\* C14: every candidate returned has a finite value strictly between 0 and
\* 100000, and a normalized string that is not empty.
ValuesInRange ==
    epc = "done" =>
        \A i \in 1..Len(amounts) :
            /\ ~amounts[i].value.nan
            /\ Less(Zero, amounts[i].value)
            /\ Less(amounts[i].value, Num(UpperLimit, <<>>))
            /\ amounts[i].normalized # <<>>

\* a text with a token of value 0, a token of value 100000 or more and a
\* token that became a candidate
ValuesInRangeWitness ==
    /\ epc = "done"
    /\ amounts # <<>>
    /\ \E m, n \in 1..Len(TextTokens) :
          /\ TokenValue(m) = Zero
          /\ ~TokenValue(n).nan /\ TokenValue(n).int >= UpperLimit

\* token n of the text passes the filters of the loop
Accepted(n) ==
    /\ normalizeNumberToken(TextTokens[n]) # <<>>
    /\ ~TokenValue(n).nan
    /\ Less(Zero, TokenValue(n))
    /\ Less(TokenValue(n), Num(UpperLimit, <<>>))

\* the first accepted token of the text whose value rounds to the hundredths h
FirstWithKey(h) ==
    CHOOSE n \in 1..Len(TextTokens) :
        /\ Accepted(n) /\ ToFixed2(TokenValue(n)) = h
        /\ \A m \in 1..(n - 1) : ~(Accepted(m) /\ ToFixed2(TokenValue(m)) = h)

\* C15: no two candidates returned have the same value rounded to two
\* decimals, and each candidate is the one of the first token in text order
\* with that rounded value: its value, its normalized string and its score.
FirstSeenWins ==
    epc = "done" =>
        /\ \A i, j \in 1..Len(amounts) :
              i # j => ToFixed2(amounts[i].value) # ToFixed2(amounts[j].value)
        /\ \A i \in 1..Len(amounts) :
              LET n == FirstWithKey(ToFixed2(amounts[i].value))
                  nrm == normalizeNumberToken(TextTokens[n])
              IN  /\ amounts[i].value = TokenValue(n)
                  /\ amounts[i].normalized = nrm
                  /\ amounts[i].score = Score(nrm, TokenValue(n))

\* two accepted tokens of the text round to the same hundredths and have
\* different normalized strings
FirstSeenWinsWitness ==
    /\ epc = "done"
    /\ \E m, n \in 1..Len(TextTokens) :
          /\ m < n /\ Accepted(m) /\ Accepted(n)
          /\ ToFixed2(TokenValue(m)) = ToFixed2(TokenValue(n))
          /\ normalizeNumberToken(TextTokens[m]) # normalizeNumberToken(TextTokens[n])
          /\ \E i \in 1..Len(amounts) :
                amounts[i].normalized = normalizeNumberToken(TextTokens[m])

\* C16: the list returned is ordered by non-increasing score, and candidates
\* of equal score by non-increasing value.
RankedByScoreThenValue ==
    epc = "done" =>
        \A i, j \in 1..Len(amounts) :
            i < j => /\ amounts[i].score >= amounts[j].score
                     /\ amounts[i].score = amounts[j].score
                           => ~Less(amounts[i].value, amounts[j].value)

\* two candidates of equal score, the smaller of which stood first in the
\* text, and a third of another score
RankedByScoreThenValueWitness ==
    /\ epc = "done"
    /\ \E i, j, k \in 1..Len(amounts) :
          /\ i < j
          /\ amounts[i].score = amounts[j].score
          /\ amounts[k].score # amounts[i].score
          /\ FirstWithKey(ToFixed2(amounts[j].value))
                < FirstWithKey(ToFixed2(amounts[i].value))

\* every candidate that passes the filters, in text order
Survivors == Collect(TextTokens, [seen |-> {}, amounts |-> <<>>])

\* C17: at most 8 candidates are returned; they are candidates that passed
\* the filters, as many as there are up to 8, and every candidate left out
\* ranks behind every candidate returned.
TopEightAfterSort ==
    epc = "done" =>
        /\ Len(amounts) <= MaxCandidates
        /\ Len(amounts) = (IF Len(Survivors) < MaxCandidates THEN Len(Survivors)
                           ELSE MaxCandidates)
        /\ \A i \in 1..Len(amounts) : \E n \in 1..Len(Survivors) : Survivors[n] = amounts[i]
        /\ \A n \in 1..Len(Survivors) :
              \/ \E i \in 1..Len(amounts) : amounts[i] = Survivors[n]
              \/ \A i \in 1..Len(amounts) : Compare(amounts[i], Survivors[n]) < 0

\* more than 8 candidates passed the filters and one of the first 8 in text
\* order is left out
TopEightAfterSortWitness ==
    /\ epc = "done"
    /\ Len(Survivors) > MaxCandidates
    /\ Len(amounts) = MaxCandidates
    /\ \E n \in 1..MaxCandidates : \A i \in 1..Len(amounts) : amounts[i] # Survivors[n]

\* C18 as claimed: for the text "Цена 3.49 лв. стар 12,00" the candidates
\* include 3.49 and 12.00, with 3.49 ranked at or above 12.00.
SampleRanksSmallerFirst ==
    (epc = "done" /\ text = SampleText) =>
        \E i, j \in 1..Len(amounts) :
            /\ amounts[i].value = Num(3, <<"4", "9">>)
            /\ amounts[j].value = Num(12, <<>>)
            /\ i <= j

\* C18 as amended: for that text the candidates are 12.00, of normalized
\* string "12.00" and score 4.5, and then 3.49, of normalized string "3.49"
\* and score 4.4.
SampleRanksLongerFirst ==
    (epc = "done" /\ text = SampleText) =>
        amounts = << [value |-> Num(12, <<>>),
                      normalized |-> <<"1", "2", ".", "0", "0">>, score |-> 45],
                     [value |-> Num(3, <<"4", "9">>),
                      normalized |-> <<"3", ".", "4", "9">>, score |-> 44] >>

\* the sample text has been through extractAmounts
SampleRanksLongerFirstWitness ==
    /\ epc = "done"
    /\ text = SampleText
    /\ Len(amounts) = 2


(***************************************************************************)
(* Properties of GET /api/convert.                                         *)
(***************************************************************************)

\* the amount parameter is there and spells a finite number
AmountFinite == camount.present /\ NumberIsFinite(ToNumber(camount))

\* the from parameter is "BGN" or "EUR" in some mix of upper and lower case
FromAnyCase ==
    /\ cfrom.present
    /\ Len(cfrom.value) = 3
    /\ \E code \in {BGN, EUR} :
          \A i \in 1..3 :
              \E n \in 1..26 : /\ cfrom.value[i] \in {UpperCase[n], LowerCase[n]}
                               /\ UpperCase[n] = code[i]

\* C20 as claimed: GET /api/convert answers 400 whenever the amount is not a
\* finite number or from is neither "BGN" nor "EUR" (absent or in another
\* letter case included), and 200 only for a finite amount with from equal
\* to "BGN" or "EUR".
ConvertRejectsAllButExactCodes ==
    cresp.status # 0 =>
        /\ cresp.status \in {200, 400}
        /\ cresp.status = 200
              <=> (AmountFinite /\ cfrom.present /\ cfrom.value \in {BGN, EUR})

\* C20 as amended: GET /api/convert answers 400 with an error whenever the
\* amount does not convert to a finite number or from, when given and not
\* empty, is not "BGN" or "EUR" in any letter case; it answers 200 in every
\* other case, an absent or empty from counting as "BGN" and the from of the
\* answer being in upper case.
ConvertAcceptsAnyCaseAndDefault ==
    cresp.status # 0 =>
        /\ cresp.status \in {200, 400}
        /\ cresp.status = 200
              <=> (AmountFinite /\ (~cfrom.present \/ cfrom.value = <<>> \/ FromAnyCase))
        /\ cresp.status = 200 =>
              cresp.body.from = (IF FromAnyCase /\ cfrom.value[1] \in {"e", "E"}
                                 THEN EUR ELSE BGN)
        /\ cresp.status = 400 =>
              cresp.body.error = (IF AmountFinite THEN "from must be BGN or EUR"
                                  ELSE "Invalid amount")

\* a request with a finite amount and a from in lower case has been answered 200
ConvertAcceptsAnyCaseAndDefaultWitness ==
    /\ cresp.status = 200
    /\ cfrom = Given(<<"e", "u", "r">>)
    /\ camount = Given(<<"1", "0">>)


(***************************************************************************)
(* Properties of POST /api/ocr.                                            *)
(***************************************************************************)

\* the preprocessing of request q failed
SharpFailed(q) == q.err[1] = "sharp"

\* the engine initialisation request q waited for failed
InitFailed(q) ==
    /\ q.job # 0
    /\ jobs[q.job].pc = "rejected"
    /\ jobs[q.job].err[1] \in {"createWorker", "setParameters"}

\* the recognition of the image of request q failed
OwnRecognitionFailed(q) ==
    /\ q.job # 0
    /\ jobs[q.job].pc = "rejected"
    /\ jobs[q.job].calls = 1
    /\ jobs[q.job].err = <<"recognize", q.job>>

\* C19: every answered POST /api/ocr request has exactly one response: 400
\* with an error when the file is missing; 500 with error and details, the
\* details being the message of the failure, when its preprocessing, the
\* engine initialisation or its recognition failed; and 200 otherwise.
OcrAnswersByOwnOutcome ==
    \A r \in 1..Len(requests) :
        requests[r].pc = "done" =>
            LET q == requests[r]
                a == q.responses[1]
            IN  /\ Len(q.responses) = 1
                /\ IF q.file = "none" THEN a = MissingFile
                   ELSE IF SharpFailed(q)
                        THEN a.status = 500 /\ a.body.details = Message(q.err)
                   ELSE IF InitFailed(q) \/ OwnRecognitionFailed(q)
                        THEN a.status = 500 /\ a.body.details = Message(jobs[q.job].err)
                   ELSE a.status = 200


(***************************************************************************)
(* Properties of the score.                                                *)
(***************************************************************************)

\* the string ends in '.' followed by exactly one or two digits
EndsInOneOrTwoDecimals(s) ==
    \E p \in 1..Len(s) :
        /\ s[p] = "."
        /\ Len(s) - p \in {1, 2}
        /\ \A j \in (p + 1)..Len(s) : s[j] \in Digit

\* the value lies in the closed range [0.20, 5000]
InClosedTypicalRange(v) ==
    /\ v.int >= 1 \/ (v.frac # <<>> /\ DigitValue(v.frac[1]) >= 2)
    /\ v.int < 5000 \/ (v.int = 5000 /\ v.frac = <<>>)

\* how many of the two bonuses a candidate has
Bonuses(c) ==
    (IF EndsInOneOrTwoDecimals(c.normalized) THEN 1 ELSE 0)
      + (IF InClosedTypicalRange(c.value) THEN 1 ELSE 0)

\* C21: each candidate's score is 2 for a normalized string that ends in '.'
\* and one or two digits, plus 2 for a value in [0.20, 5000], plus
\* min(length of the normalized string, 10) / 10 (scores are in tenths here);
\* the score lies in (0, 5], and a candidate with both bonuses stands before
\* every candidate with at most one.
ScoreByFormula ==
    epc = "done" =>
        /\ \A i \in 1..Len(amounts) :
              LET c == amounts[i]
                  n == Len(c.normalized)
              IN  /\ c.score = 20 * Bonuses(c) + (IF n < 10 THEN n ELSE 10)
                  /\ c.score > 0
                  /\ c.score <= 50
        /\ \A i, j \in 1..Len(amounts) :
              (Bonuses(amounts[i]) = 2 /\ Bonuses(amounts[j]) <= 1) => i < j

\* candidates with two, one and no bonus, one of them with a normalized
\* string of more than 10 characters, and the one with both bonuses last in
\* the text
ScoreByFormulaWitness ==
    /\ epc = "done"
    /\ Len(amounts) = 3
    /\ Bonuses(amounts[1]) = 2
    /\ Bonuses(amounts[2]) = 1
    /\ Bonuses(amounts[3]) = 0
    /\ \E i \in 1..3 : Len(amounts[i].normalized) > 10
    /\ \A i \in 2..3 : FirstWithKey(ToFixed2(amounts[i].value))
                          < FirstWithKey(ToFixed2(amounts[1].value))


(***************************************************************************)
(* Properties of results, shutdown and frame effects.                      *)
(***************************************************************************)

\* C22: whenever the promise a runOcr call returned is fulfilled, its value
\* is the recognition result of the buffer passed to that call, and a request
\* answered 200 is answered with the text of its own image.
ResultIsOwn ==
    /\ \A k \in JobIds :
          ReturnedState(k) = "fulfilled" => ReturnedValue(k) = RecognizedText(jobs[k].buffer)
    /\ \A r \in 1..Len(requests) :
          (requests[r].pc = "done" /\ requests[r].responses[1].status = 200) =>
              requests[r].responses[1].body.rawText
                  = EngineText(RecognizedText(Preprocessed(requests[r].file)))

\* two requests with different images were under way together, the second
\* submitted to runOcr before the first was recognized, and both are answered 200
ResultIsOwnWitness ==
    /\ Len(requests) = 2
    /\ requests[1].file # requests[2].file
    /\ \A r \in 1..2 : requests[r].pc = "done" /\ requests[r].responses[1].status = 200
    /\ Len(jobs) = 2
    /\ jobs[2].prev = 1
    /\ jobs[2].atCall = "pending"


\* C23: once a SIGINT handler has called worker.terminate on the engine
\* handle, no step invokes worker.recognize on it: the count of recognize
\* calls of every job stays as it is.
NoRecognizeAfterTerminate ==
    [][terminateCalls > 0 => \A k \in JobIds : jobs'[k].calls = jobs[k].calls]_vars


\* C24: a step in which a POST /api/ocr request arrives, is answered 400 for
\* its missing file or is answered 500 for its failed preprocessing leaves
\* the engine manager as it is; and as long as no job was submitted, shutdown
\* included, no engine is created and none is terminated.
ManagerUntouchedWithoutJob ==
    /\ [](jobs = <<>> =>
            /\ workerPromise = "null"
            /\ createWorkerCalls = 0
            /\ terminateCalls = 0
            /\ queue = 0)
    /\ [][(\E r \in 1..Len(requests') :
              /\ requests'[r].job = 0
              /\ r > Len(requests) \/ requests'[r] # requests[r])
          => UNCHANGED mgrVars]_vars

\* a request without a file was answered 400, a request whose preprocessing
\* failed was answered 500, and a SIGINT has ended the process with no job
\* ever submitted
ManagerUntouchedWithoutJobWitness ==
    /\ Len(requests) = 2
    /\ requests[1].file = "none" /\ requests[1].responses[1].status = 400
    /\ requests[2].err[1] = "sharp" /\ requests[2].responses[1].status = 500
    /\ jobs = <<>>
    /\ handlers # <<>>
    /\ exited

====
